---- MODULE Spec2Model ----
(***************************************************************************)
(* The interactive session drivers of artisnovaDSP:                        *)
(*   run_with_password (automate_pty.py), run_ssh_command (ssh_client.py), *)
(*   sync_file (sync_file_to_pi.py) and run_scp (scp_client.py),           *)
(* each driving a child process over a pseudo-terminal.                    *)
(*                                                                         *)
(* A byte string is a sequence of one-character strings.  The clock `now`  *)
(* counts ticks of 1/TicksPerSecond seconds.                               *)
(***************************************************************************)
EXTENDS Integers, Sequences, FiniteSets, TLC

VARIABLES
    driver,       \* which of the four driver functions this session runs
    cmd_args,     \* run_with_password: the command the caller passed
    pc,           \* the driver's position in its code
    now,          \* time.time(), in ticks
    start_time,   \* read_until: start_time
    markers,      \* read_until: the markers argument (a list, or the one marker)
    buf,          \* read_until: buf
    found,        \* read_until: the marker returned (None when there is none)
    ruExit,       \* read_until: the statement it left by: match/timeout/eof/error
    ruRet,        \* read_until: the driver position it returns to
    output,       \* the driver's local `output` (read_until's returned buffer)
    relayed,      \* stdout (run_with_password), final_output, output_data
    written,      \* every os.write on the master fd, in order
    printed,      \* every print of the driver, in order
    encoded,      \* sync_file: the base64 text of the local file
    idx,          \* sync_file: the loop variable i of the chunk loop
    status,       \* the status os.waitpid returned (-1 before)
    reaped,       \* os.waitpid has returned for the child
    killSent,     \* os.kill(pid, 9) was called
    fdOpen,       \* the master fd is open in the driver's process
    lastRead,     \* what the last os.read did: none/data/eof/error
    consumed,     \* every byte os.read has returned in this session, in order
    ruBase,       \* Len(consumed) when the current read_until call started
    avail,        \* bytes the child wrote that wait in the pty for a read
    pending,      \* bytes the child will write without further input
    later,        \* output segments the child writes after a line of input each
    inputsSeen,   \* how many of the driver's writes the child has taken
    pieces,       \* in how many writes the child has put out its segment so far
    childState,   \* running / exited / killed
    childStatus   \* the wait status the child ends with (-1 while running)

vars == <<driver, cmd_args, pc, now, start_time, markers, buf, found, ruExit, ruRet,
          output, relayed, written, printed, encoded, idx, status, reaped,
          killSent, fdOpen, lastRead, consumed, ruBase, avail, pending, later,
          inputsSeen, pieces, childState, childStatus>>

chanVars ==
    <<avail, pending, later, inputsSeen, pieces, childState, childStatus>>
ruVars == <<start_time, markers, buf, found, ruExit, ruRet, ruBase>>

-----------------------------------------------------------------------------
(* Bounds of the model *)

\* how many whole timeout periods of child silence the clock may run through
MaxStalls == 2
\* the longest encoded payload, in chunks of chunk_size
MaxPayloadChunks == 2
\* in how many separate writes the child may put out one segment of output
MaxPieces == 3

-----------------------------------------------------------------------------
(* Program constants *)

\* read_until(..., timeout=10), seconds
timeout == 10
\* time.sleep(0.05): one tick is 1/20 s
TicksPerSecond == 20
\* os.read(fd, 1024)
ReadSize == 1024
\* chunk_size = 4096
chunk_size == 4096
\* os.kill(pid, 9)
SIGKILL == 9

timeoutTicks == timeout * TicksPerSecond

\* time.sleep(0.05) in automate_pty.py and ssh_client.py, time.sleep(0.1) in
\* sync_file_to_pi.py
PollTicks(d) == IF d = "sync_file" THEN 2 ELSE 1

None == <<>>

marker_password == <<"p","a","s","s","w","o","r","d",":">>
marker_Password == <<"P","a","s","s","w","o","r","d",":">>
marker_yesno == <<"y","e","s","/","n","o">>
yes_line == <<"y","e","s","\n">>
newline == <<"\n">>
\* b"\x04", written here as the one character "^D"
ctrl_d == <<"^D">>

-----------------------------------------------------------------------------
(* Byte-string helpers *)

Min(a, b) == IF a < b THEN a ELSE b

UpperCase == <<"A","B","C","D","E","F","G","H","I","J","K","L","M",
               "N","O","P","Q","R","S","T","U","V","W","X","Y","Z">>
LowerCase == <<"a","b","c","d","e","f","g","h","i","j","k","l","m",
               "n","o","p","q","r","s","t","u","v","w","x","y","z">>

\* bytes.lower(): ASCII upper-case letters to lower case, all else unchanged
lower(b) ==
    [k \in 1..Len(b) |->
        IF \E j \in 1..26 : UpperCase[j] = b[k]
        THEN LowerCase[CHOOSE j \in 1..26 : UpperCase[j] = b[k]]
        ELSE b[k]]

\* Python's `needle in hay` on bytes
Contains(needle, hay) ==
    \E k \in 0..(Len(hay) - Len(needle)) :
        SubSeq(hay, k + 1, k + Len(needle)) = needle

\* str.replace('\r\n', '\n')
RECURSIVE ReplaceCRLF(_)
ReplaceCRLF(s) ==
    IF s = <<>> THEN <<>>
    ELSE IF Len(s) >= 2 /\ s[1] = "\r" /\ s[2] = "\n"
         THEN <<"\n">> \o ReplaceCRLF(SubSeq(s, 3, Len(s)))
         ELSE <<s[1]>> \o ReplaceCRLF(Tail(s))

\* bytes.decode('utf-8', errors='replace'): every byte of the model's alphabet
\* is ASCII, which decodes to the same character
Decode(b) == b

-----------------------------------------------------------------------------
(* read_until: the matching step of each variant *)

\* the marker loop run from the end of the list
RECURSIVE LastMarkerIn(_, _)
LastMarkerIn(ms, b) ==
    IF ms = <<>> THEN None
    ELSE IF Contains(lower(ms[Len(ms)]), lower(b)) THEN ms[Len(ms)]
         ELSE LastMarkerIn(SubSeq(ms, 1, Len(ms) - 1), b)

\* automate_pty.py: for marker in markers: if marker.encode().lower() in
\* buf.lower(): return buf, marker
RECURSIVE FirstMarkerIn(_, _)
FirstMarkerIn(ms, b) ==
    IF ms = <<>> THEN None
    ELSE IF Contains(lower(Head(ms)), lower(b)) THEN Head(ms)
         ELSE FirstMarkerIn(Tail(ms), b)

\* ssh_client.py: marker.encode() in buf, or the backup check
SshMatch(m, b) ==
    \/ Contains(m, b)
    \/ Contains(marker_Password, b)
    \/ Contains(marker_password, b)

\* sync_file_to_pi.py: marker.encode() in buf
SyncMatch(m, b) == Contains(m, b)

\* the marker read_until returns for buffer b (None: keep reading).  The
\* ssh_client and sync_file variants return only the buffer; for them the
\* marker stands for "left by the return inside the loop".
MatchOf(d, ms, b) ==
    CASE d = "run_with_password" -> FirstMarkerIn(ms, b)
      [] d = "run_ssh_command" ->
            IF SshMatch(ms[1], b) THEN ms[1] ELSE None
      [] OTHER ->
            IF SyncMatch(ms[1], b) THEN ms[1] ELSE None

\* a test that any buffer passes
PromptIn_Always(b) == TRUE

\* the driver's own test on the returned buffer:
\* b"password:" in output or b"Password:" in output
PromptIn(b) == Contains(marker_password, b) \/ Contains(marker_Password, b)

-----------------------------------------------------------------------------
(* Inputs: the credential, the encoded file and the child's behaviour *)

\* the password argument
password == <<"s","3","c">>
password_line == password \o newline

\* base64.b64encode(content).decode("utf-8"): a text over the base64 alphabet
\* whose length is a multiple of 4; the characters vary with the position so
\* that a lost, repeated or reordered piece changes the text
B64Chars == <<"Q","U","J","D","R","E","F","=">>
B64Text(n) == [k \in 1..n |-> B64Chars[((k * k) % 7) + 1]]
EncodedLens ==
    {0, 4, chunk_size - 4, chunk_size, chunk_size + 4,
     MaxPayloadChunks * chunk_size}

Drivers == {"run_with_password", "run_ssh_command", "sync_file", "run_scp"}

\* What the spawned program writes: `first` at once, then one segment of
\* `later` after each line of input it takes.
s_sp == <<" ">>
s_ok == <<"o","k">>
s_PASSWORD == <<"P","A","S","S","W","O","R","D",":">>
Programs ==
    { [first |-> marker_Password \o s_sp, later |-> <<s_ok>>],
      [first |-> marker_password, later |-> <<>>],
      [first |-> s_PASSWORD, later |-> <<>>],
      [first |-> marker_yesno, later |-> <<marker_Password>>],
      [first |-> marker_yesno \o marker_password, later |-> <<>>],
      [first |-> marker_password, later |-> <<marker_password>>],
      [first |-> <<"x">>, later |-> <<>>] }

\* exit codes of a child that ends by itself
ExitCodes == {0, 1}

\* signals that end the child from outside the session
DeathSignals == {SIGKILL}

\* the commands run_with_password is called with (sys.argv[2:]): one that
\* carries the ssh options and one that does not
CmdArgs ==
    { <<"scp", "-o", "StrictHostKeyChecking=no", "-o", "ConnectTimeout=5",
        "local_path", "user@host:remote_path">>,
      <<"scp", "local_path", "user@host:remote_path">> }

\* the argument vectors of os.execvp
Ssh_Argv ==
    <<"ssh", "-o", "StrictHostKeyChecking=no", "-o", "ConnectTimeout=5",
      "user@host", "command">>
Sync_Argv ==
    <<"ssh", "-o", "StrictHostKeyChecking=no", "user@host",
      "base64 -d > remote_path">>
Scp_Argv ==
    <<"scp", "-r", "-v", "-o", "StrictHostKeyChecking=no", "-o",
      "ConnectTimeout=5", "local_path", "user@host:remote_path">>

\* what the child of driver d is exec'ed with
ExecArgv(d, args) ==
    CASE d = "run_with_password" -> args
      [] d = "run_ssh_command" -> Ssh_Argv
      [] d = "sync_file" -> Sync_Argv
      [] OTHER -> Scp_Argv

\* the wait status of a child that called exit(code)
ExitedStatus(code) == code * 256
\* os.WEXITSTATUS(status)
WEXITSTATUS(st) == (st \div 256) % 256

-----------------------------------------------------------------------------
Init ==
    /\ driver \in Drivers
    /\ cmd_args \in IF driver = "run_with_password" THEN CmdArgs ELSE {<<>>}
    /\ pc = "start"
    /\ now = 0
    /\ start_time = 0
    /\ markers = <<>>
    /\ buf = <<>>
    /\ found = None
    /\ ruExit = "none"
    /\ ruRet = "none"
    /\ output = <<>>
    /\ relayed = <<>>
    /\ written = <<>>
    /\ printed = <<>>
    /\ encoded \in IF driver = "sync_file"
                   THEN {B64Text(n) : n \in EncodedLens}
                   ELSE {<<>>}
    /\ idx = 0
    /\ status = -1
    /\ reaped = FALSE
    /\ killSent = FALSE
    /\ fdOpen = FALSE
    /\ lastRead = "none"
    /\ consumed = <<>>
    /\ ruBase = 0
    /\ avail = <<>>
    /\ \E p \in Programs : pending = p.first /\ later = p.later
    /\ inputsSeen = 0
    /\ pieces = 0
    /\ childState = "unborn"
    /\ childStatus = -1

-----------------------------------------------------------------------------
(* The child and the pseudo-terminal *)

\* the child writes the next n bytes of its output to the slave side
ChildEmit(n) ==
    /\ childState = "running"
    /\ n \in 1..Len(pending)
    /\ pieces + 1 < MaxPieces \/ n = Len(pending)
    /\ pieces' = pieces + 1
    /\ avail' = avail \o SubSeq(pending, 1, n)
    /\ pending' = SubSeq(pending, n + 1, Len(pending))
    /\ UNCHANGED <<driver, cmd_args, pc, now, ruVars, output, relayed, written, printed,
                   encoded, idx, status, reaped, killSent, fdOpen, lastRead,
                   consumed, later, inputsSeen, childState, childStatus>>

\* the child takes one line the driver wrote and goes on to its next segment
ChildInput ==
    /\ childState = "running"
    /\ pending = <<>>
    /\ later # <<>>
    /\ inputsSeen < Len(written)
    /\ inputsSeen' = inputsSeen + 1
    /\ pending' = Head(later)
    /\ later' = Tail(later)
    /\ pieces' = 0
    /\ UNCHANGED <<driver, cmd_args, pc, now, ruVars, output, relayed, written, printed,
                   encoded, idx, status, reaped, killSent, fdOpen, lastRead,
                   consumed, avail, childState, childStatus>>

\* the child ends with an exit code; the slave side closes
ChildExit(code) ==
    /\ childState = "running"
    /\ pending = <<>>
    /\ childState' = "exited"
    /\ childStatus' = ExitedStatus(code)
    /\ UNCHANGED <<driver, cmd_args, pc, now, ruVars, output, relayed, written, printed,
                   encoded, idx, status, reaped, killSent, fdOpen, lastRead,
                   consumed, avail, pending, later, inputsSeen, pieces>>

\* the child is ended by a signal from outside; the slave side closes
ChildSignalled(sig) ==
    /\ childState = "running"
    /\ pending = <<>>
    /\ childState' = "killed"
    /\ childStatus' = sig
    /\ UNCHANGED <<driver, cmd_args, pc, now, ruVars, output, relayed, written,
                   printed, encoded, idx, status, reaped, killSent, fdOpen,
                   lastRead, consumed, avail, pending, later, inputsSeen,
                   pieces>>

\* os.read(fd, 1024) with bytes waiting: up to ReadSize of them
ReadableChunk == SubSeq(avail, 1, Min(Len(avail), ReadSize))
CanRead == avail # <<>>
\* os.read at end of stream: returns b"" or raises OSError
AtEndOfStream == avail = <<>> /\ childState \in {"exited", "killed"}
\* os.read would block: nothing waiting and the slave side still open
WouldBlock == avail = <<>> /\ childState = "running"

TakeChunk ==
    /\ avail' = SubSeq(avail, Len(ReadableChunk) + 1, Len(avail))
    /\ consumed' = consumed \o ReadableChunk
    /\ lastRead' = "data"

\* Kill without the signal: the child is left alone
Kill_NoSignal == UNCHANGED <<killSent, childState, childStatus>>

\* os.kill(pid, 9): ends a running child; a child that already ended stays
\* as it is until it is reaped
Kill ==
    /\ killSent' = TRUE
    /\ IF childState = "running"
       THEN childState' = "killed" /\ childStatus' = SIGKILL
       ELSE UNCHANGED <<childState, childStatus>>

-----------------------------------------------------------------------------
(* read_until *)

\* the call: buf = b"", start_time = time.time(), and the first test of the
\* loop condition, which holds (0 < timeout)
CallReadUntil(ms, ret) ==
    /\ start_time' = now
    /\ buf' = <<>>
    /\ markers' = ms
    /\ found' = None
    /\ ruExit' = "none"
    /\ ruRet' = ret
    /\ ruBase' = Len(consumed)
    /\ pc' = "ru_read"

\* the loop test: while time.time() - start_time < timeout
LoopGoesOn(t, st) == t - st < timeoutTicks

\* buf = chunk: the earlier reads are dropped
Accumulate_Overwrite(b, chunk) == chunk

\* buf += chunk
Accumulate(b, chunk) == b \o chunk

\* the marker test on the last chunk alone
Scanned_ChunkOnly(b, chunk) == chunk

\* the bytes the marker test looks at: the whole of buf, not the last chunk
Scanned(b, chunk) == b

\* one pass of the loop in which os.read returns bytes: append, test the
\* markers, return on a match; else sleep and test the loop condition
RuReadData ==
    /\ pc = "ru_read"
    /\ CanRead
    /\ TakeChunk
    /\ LET nb == Accumulate(buf, ReadableChunk)
           m == MatchOf(driver, markers, Scanned(nb, ReadableChunk))
           t == now + PollTicks(driver)
       IN /\ buf' = nb
          /\ IF m # None
             THEN /\ found' = m
                  /\ ruExit' = "match"
                  /\ pc' = ruRet
                  /\ now' = now
             ELSE /\ found' = None
                  /\ now' = t
                  /\ IF LoopGoesOn(t, start_time)
                     THEN pc' = "ru_read" /\ ruExit' = ruExit
                     ELSE pc' = ruRet /\ ruExit' = "timeout"
    /\ UNCHANGED <<driver, cmd_args, start_time, markers, ruRet, ruBase, output, relayed,
                   written, printed, encoded, idx, status, reaped, killSent,
                   fdOpen, pending, later, inputsSeen, pieces, childState,
                   childStatus>>

\* os.read returns b"": break, return buf without a marker
RuReadEOF ==
    /\ pc = "ru_read"
    /\ AtEndOfStream
    /\ lastRead' = "eof"
    /\ ruExit' = "eof"
    /\ found' = None
    /\ pc' = ruRet
    /\ UNCHANGED <<driver, cmd_args, now, start_time, markers, buf, ruRet, ruBase, output,
                   relayed, written, printed, encoded, idx, status, reaped,
                   killSent, fdOpen, consumed, chanVars>>

\* os.read raises OSError: break, return buf without a marker
RuReadError ==
    /\ pc = "ru_read"
    /\ AtEndOfStream
    /\ lastRead' = "error"
    /\ ruExit' = "error"
    /\ found' = None
    /\ pc' = ruRet
    /\ UNCHANGED <<driver, cmd_args, now, start_time, markers, buf, ruRet, ruBase, output,
                   relayed, written, printed, encoded, idx, status, reaped,
                   killSent, fdOpen, consumed, chanVars>>

\* os.read blocks while the child is silent: a timeout period goes by
RuReadBlocked ==
    /\ pc = "ru_read"
    /\ WouldBlock
    /\ now < MaxStalls * timeoutTicks
    /\ now' = now + timeoutTicks
    /\ UNCHANGED <<driver, cmd_args, pc, ruVars, output, relayed, written, printed,
                   encoded, idx, status, reaped, killSent, fdOpen, lastRead,
                   consumed, chanVars>>

-----------------------------------------------------------------------------
(* Steps shared by the drivers' code *)

Msg(t, d) == [text |-> t, data |-> d]

\* pid, fd = pty.fork(); the child execs its program
Fork ==
    /\ childState' = "running"
    /\ fdOpen' = TRUE

\* a write that lands ahead of the earlier ones
Write_Prepend(b) == written' = <<b>> \o written

\* os.write(fd, b)
Write(b) == written' = Append(written, b)

\* the function returns and the script ends: the process's descriptors close
Return ==
    /\ pc' = "done"
    /\ fdOpen' = FALSE

\* the relay keeps the last chunk alone
RelayData_Overwrite ==
    /\ pc = "relay"
    /\ CanRead
    /\ TakeChunk
    /\ relayed' = ReadableChunk

\* the `while True` relay loop: a read that returns bytes
RelayData ==
    /\ pc = "relay"
    /\ CanRead
    /\ TakeChunk
    /\ relayed' = relayed \o ReadableChunk

\* the end of the relay loop sends the driver back to wait for a prompt
RelayEnd_Rewait(how) ==
    /\ pc = "relay"
    /\ AtEndOfStream
    /\ lastRead' = how
    /\ pc' = "ru_read"

\* the relay loop: os.read returns b"" (break) or raises OSError (break)
RelayEnd(how) ==
    /\ pc = "relay"
    /\ AtEndOfStream
    /\ lastRead' = how
    /\ pc' = "waitpid"

\* os.waitpid(pid, 0): blocks until the child has ended
Waitpid ==
    /\ childState \in {"exited", "killed"}
    /\ ~reaped
    /\ reaped' = TRUE
    /\ status' = childStatus

-----------------------------------------------------------------------------
(* run_with_password (automate_pty.py) *)

Rwp_Start ==
    /\ driver = "run_with_password"
    /\ pc = "start"
    /\ Fork
    /\ CallReadUntil(<<marker_password, marker_yesno>>, "rwp_first")
    /\ UNCHANGED <<driver, cmd_args, now, output, relayed, written, printed, encoded, idx,
                   status, reaped, killSent, lastRead, consumed, avail, pending,
                   later, inputsSeen, pieces, childStatus>>

\* lines 37-52 without the test of found: the credential is always written
Rwp_Branch_Always(f, out, w) ==
    /\ written' = Append(w, password_line)
    /\ pc' = "relay"
    /\ UNCHANGED <<printed, killSent, childState, childStatus>>

\* lines 37-52: if found == "password:" write the credential and relay, else
\* print the error and kill; `f` and `out` are found and output
Rwp_Branch(f, out, w) ==
    IF f = marker_password
    THEN /\ written' = Append(w, password_line)
         /\ pc' = "relay"
         /\ UNCHANGED <<printed, killSent, childState, childStatus>>
    ELSE /\ written' = w
         /\ printed' = Append(printed,
                Msg("Error: Expected password prompt, got:", Decode(out)))
         /\ Kill
         /\ pc' = "waitpid"

\* the first read_until has returned (line 31); lines 33-35, or 37-52
Rwp_AfterFirst ==
    /\ driver = "run_with_password"
    /\ pc = "rwp_first"
    /\ IF found = marker_yesno
       THEN /\ written' = Append(written, yes_line)
            /\ CallReadUntil(<<marker_password>>, "rwp_second")
            /\ output' = buf
            /\ UNCHANGED <<printed, killSent, childState, childStatus>>
       ELSE /\ output' = buf
            /\ Rwp_Branch(found, buf, written)
            /\ UNCHANGED ruVars
    /\ UNCHANGED <<driver, cmd_args, now, relayed, encoded, idx, status, reaped, fdOpen,
                   lastRead, consumed, avail, pending, later, inputsSeen,
                   pieces>>

\* the second read_until has returned (line 35); lines 37-52
Rwp_AfterSecond ==
    /\ driver = "run_with_password"
    /\ pc = "rwp_second"
    /\ output' = buf
    /\ Rwp_Branch(found, buf, written)
    /\ UNCHANGED <<driver, cmd_args, now, ruVars, relayed, encoded, idx, status, reaped,
                   fdOpen, lastRead, consumed, avail, pending, later,
                   inputsSeen, pieces>>

\* lines 41-47: sys.stdout.buffer.write(chunk)
Rwp_RelayData ==
    /\ driver = "run_with_password"
    /\ RelayData
    /\ UNCHANGED <<driver, cmd_args, pc, now, ruVars, output, written, printed, encoded,
                   idx, status, reaped, killSent, fdOpen, pending, later,
                   inputsSeen, pieces, childState, childStatus>>

Rwp_RelayEnd ==
    /\ driver = "run_with_password"
    /\ \E how \in {"eof", "error"} : RelayEnd(how)
    /\ UNCHANGED <<driver, cmd_args, now, ruVars, output, relayed, written, printed,
                   encoded, idx, status, reaped, killSent, fdOpen, consumed,
                   chanVars>>

\* line 54: os.waitpid(pid, 0), then the function returns
Rwp_Waitpid ==
    /\ driver = "run_with_password"
    /\ pc = "waitpid"
    /\ Waitpid
    /\ Return
    /\ UNCHANGED <<driver, cmd_args, now, ruVars, output, relayed, written, printed,
                   encoded, idx, killSent, lastRead, consumed, chanVars>>

-----------------------------------------------------------------------------
(* run_ssh_command (ssh_client.py) *)

Ssh_Start ==
    /\ driver = "run_ssh_command"
    /\ pc = "start"
    /\ Fork
    /\ CallReadUntil(<<marker_password>>, "ssh_prompt")
    /\ UNCHANGED <<driver, cmd_args, now, output, relayed, written, printed, encoded, idx,
                   status, reaped, killSent, lastRead, consumed, avail, pending,
                   later, inputsSeen, pieces, childStatus>>

\* lines 35-38 and 59-65
Ssh_AfterPrompt ==
    /\ driver = "run_ssh_command"
    /\ pc = "ssh_prompt"
    /\ output' = buf
    /\ IF PromptIn(buf)
       THEN /\ Write(password_line)
            /\ pc' = "relay"
            /\ UNCHANGED <<printed, killSent, childState, childStatus, fdOpen>>
       ELSE /\ printed' = printed \o
                <<Msg("Error: No password prompt.", <<>>),
                  Msg("Received:", Decode(buf))>>
            /\ Kill
            /\ Return
            /\ UNCHANGED written
    /\ UNCHANGED <<driver, cmd_args, now, ruVars, relayed, encoded, idx, status, reaped,
                   lastRead, consumed, avail, pending, later, inputsSeen,
                   pieces>>

\* lines 41-48: final_output += chunk
Ssh_RelayData ==
    /\ driver = "run_ssh_command"
    /\ RelayData
    /\ UNCHANGED <<driver, cmd_args, pc, now, ruVars, output, written, printed, encoded,
                   idx, status, reaped, killSent, fdOpen, pending, later,
                   inputsSeen, pieces, childState, childStatus>>

Ssh_RelayEnd ==
    /\ driver = "run_ssh_command"
    /\ \E how \in {"eof", "error"} : RelayEnd(how)
    /\ UNCHANGED <<driver, cmd_args, now, ruVars, output, relayed, written, printed,
                   encoded, idx, status, reaped, killSent, fdOpen, consumed,
                   chanVars>>

\* lines 52-58: waitpid, decode, print(decoded)
Ssh_Waitpid ==
    /\ driver = "run_ssh_command"
    /\ pc = "waitpid"
    /\ Waitpid
    /\ printed' = Append(printed, Msg("", ReplaceCRLF(Decode(relayed))))
    /\ Return
    /\ UNCHANGED <<driver, cmd_args, now, ruVars, output, relayed, written, encoded, idx,
                   killSent, lastRead, consumed, chanVars>>

-----------------------------------------------------------------------------
(* sync_file (sync_file_to_pi.py) *)

Sync_Start ==
    /\ driver = "sync_file"
    /\ pc = "start"
    /\ Fork
    /\ CallReadUntil(<<marker_password>>, "sync_prompt")
    /\ UNCHANGED <<driver, cmd_args, now, output, relayed, written, printed, encoded, idx,
                   status, reaped, killSent, lastRead, consumed, avail, pending,
                   later, inputsSeen, pieces, childStatus>>

\* lines 38-45 and 73-79
Sync_AfterPrompt ==
    /\ driver = "sync_file"
    /\ pc = "sync_prompt"
    /\ output' = buf
    /\ IF PromptIn(buf)
       THEN /\ Write(password_line)
            /\ idx' = 0
            /\ pc' = "upload"
            /\ UNCHANGED <<printed, killSent, childState, childStatus, fdOpen>>
       ELSE /\ printed' = printed \o
                <<Msg("Error: Did not receive password prompt.", <<>>),
                  Msg("Output was:", Decode(buf))>>
            /\ Kill
            /\ Return
            /\ UNCHANGED <<written, idx>>
    /\ UNCHANGED <<driver, cmd_args, now, ruVars, relayed, encoded, status, reaped,
                   lastRead, consumed, avail, pending, later, inputsSeen,
                   pieces>>

\* encoded[i:i + chunk_size]
Slice(s, i, j) == SubSeq(s, i + 1, Min(j, Len(s)))

\* a loop over the whole chunks only: the remainder is never sent
InRange_WholeOnly(i, n) == i + chunk_size <= n

\* for i in range(0, len(encoded), chunk_size): the loop goes on at i
InRange(i, n) == i < n

\* lines 49-53: one pass of the chunk loop
Sync_WriteChunk ==
    /\ driver = "sync_file"
    /\ pc = "upload"
    /\ InRange(idx, Len(encoded))
    /\ Write(Slice(encoded, idx, idx + chunk_size))
    /\ idx' = idx + chunk_size
    /\ UNCHANGED <<driver, cmd_args, pc, now, ruVars, output, relayed, printed, encoded,
                   status, reaped, killSent, fdOpen, lastRead, consumed,
                   chanVars>>

\* line 55: os.write(fd, b"\n"), once the loop is over
Sync_WriteNewline ==
    /\ driver = "sync_file"
    /\ pc = "upload"
    /\ ~InRange(idx, Len(encoded))
    /\ Write(newline)
    /\ pc' = "upload_eot"
    /\ UNCHANGED <<driver, cmd_args, now, ruVars, output, relayed, printed, encoded, idx,
                   status, reaped, killSent, fdOpen, lastRead, consumed,
                   chanVars>>

\* lines 58-61: os.write(fd, b"\x04"); final_output = b""
Sync_WriteEOT ==
    /\ driver = "sync_file"
    /\ pc = "upload_eot"
    /\ Write(ctrl_d)
    /\ pc' = "relay"
    /\ UNCHANGED <<driver, cmd_args, now, ruVars, output, relayed, printed, encoded, idx,
                   status, reaped, killSent, fdOpen, lastRead, consumed,
                   chanVars>>

\* lines 62-67: final_output += chunk
Sync_RelayData ==
    /\ driver = "sync_file"
    /\ RelayData
    /\ UNCHANGED <<driver, cmd_args, pc, now, ruVars, output, written, printed, encoded,
                   idx, status, reaped, killSent, fdOpen, pending, later,
                   inputsSeen, pieces, childState, childStatus>>

Sync_RelayEnd ==
    /\ driver = "sync_file"
    /\ \E how \in {"eof", "error"} : RelayEnd(how)
    /\ UNCHANGED <<driver, cmd_args, now, ruVars, output, relayed, written, printed,
                   encoded, idx, status, reaped, killSent, fdOpen, consumed,
                   chanVars>>

\* lines 71-72: waitpid, print(f"File {local_path} synced to {remote_path}")
Sync_Waitpid ==
    /\ driver = "sync_file"
    /\ pc = "waitpid"
    /\ Waitpid
    /\ printed' = Append(printed, Msg("File synced", <<>>))
    /\ Return
    /\ UNCHANGED <<driver, cmd_args, now, ruVars, output, relayed, written, encoded, idx,
                   killSent, lastRead, consumed, chanVars>>

-----------------------------------------------------------------------------
(* run_scp (scp_client.py) *)

\* lines 24-30: fork, output_data = b""
Scp_Start ==
    /\ driver = "run_scp"
    /\ pc = "start"
    /\ Fork
    /\ pc' = "relay"
    /\ UNCHANGED <<driver, cmd_args, now, ruVars, output, relayed, written, printed,
                   encoded, idx, status, reaped, killSent, lastRead, consumed,
                   avail, pending, later, inputsSeen, pieces, childStatus>>

\* lines 37-42: output_data += chunk; the prompt test on the chunk
Scp_RelayData ==
    /\ driver = "run_scp"
    /\ RelayData
    /\ IF PromptIn(ReadableChunk)
       THEN Write(password_line)
       ELSE UNCHANGED written
    /\ UNCHANGED <<driver, cmd_args, pc, now, ruVars, output, printed, encoded, idx,
                   status, reaped, killSent, fdOpen, pending, later,
                   inputsSeen, pieces, childState, childStatus>>

Scp_RelayEnd ==
    /\ driver = "run_scp"
    /\ \E how \in {"eof", "error"} : RelayEnd(how)
    /\ UNCHANGED <<driver, cmd_args, now, ruVars, output, relayed, written, printed,
                   encoded, idx, status, reaped, killSent, fdOpen, consumed,
                   chanVars>>

\* lines 50-57: waitpid and the report
Scp_Waitpid ==
    /\ driver = "run_scp"
    /\ pc = "waitpid"
    /\ Waitpid
    /\ IF WEXITSTATUS(childStatus) = 0
       THEN printed' = Append(printed, Msg("Transfer successful", <<>>))
       ELSE printed' = printed \o
                <<Msg("Transfer failed", <<>>), Msg("Output dump:", <<>>),
                  Msg("", Decode(relayed))>>
    /\ Return
    /\ UNCHANGED <<driver, cmd_args, now, ruVars, output, relayed, written, encoded, idx,
                   killSent, lastRead, consumed, chanVars>>

-----------------------------------------------------------------------------
Next ==
    \/ \E n \in 1..Len(pending) : ChildEmit(n)
    \/ ChildInput
    \/ \E code \in ExitCodes : ChildExit(code)
    \/ \E sig \in DeathSignals : ChildSignalled(sig)
    \/ RuReadData
    \/ RuReadEOF
    \/ RuReadError
    \/ RuReadBlocked
    \/ Rwp_Start
    \/ Rwp_AfterFirst
    \/ Rwp_AfterSecond
    \/ Rwp_RelayData
    \/ Rwp_RelayEnd
    \/ Rwp_Waitpid
    \/ Ssh_Start
    \/ Ssh_AfterPrompt
    \/ Ssh_RelayData
    \/ Ssh_RelayEnd
    \/ Ssh_Waitpid
    \/ Sync_Start
    \/ Sync_AfterPrompt
    \/ Sync_WriteChunk
    \/ Sync_WriteNewline
    \/ Sync_WriteEOT
    \/ Sync_RelayData
    \/ Sync_RelayEnd
    \/ Sync_Waitpid
    \/ Scp_Start
    \/ Scp_RelayData
    \/ Scp_RelayEnd
    \/ Scp_Waitpid

Spec == Init /\ [][Next]_vars

-----------------------------------------------------------------------------
(* Vocabulary of the properties *)

PreScanDrivers == {"run_with_password", "run_ssh_command", "sync_file"}

\* the prints by which a driver tells its caller that the session failed
ErrorTexts ==
    { "Error: Expected password prompt, got:",
      "Error: No password prompt.",
      "Error: Did not receive password prompt.",
      "Transfer failed" }

ReportedFailure == \E k \in 1..Len(printed) : printed[k].text \in ErrorTexts

\* the driver has returned and told its caller of no failure
ReportedSuccess == pc = "done" /\ ~ReportedFailure

\* some print carries the byte string b
ReportCarries(b) == \E k \in 1..Len(printed) : printed[k].data = b

CredentialWritten == \E k \in 1..Len(written) : written[k] = password_line

\* the driver has acted on the result of the read_until call it last made
ActedOnWait == ruRet # "none" /\ pc \notin {"ru_read", ruRet}

\* the wait for the first prompt is over, it ended without a match inside
\* read_until, and the driver has acted on it
InitialWaitUnmatched ==
    /\ driver \in PreScanDrivers
    /\ ruRet \in {"rwp_first", "ssh_prompt", "sync_prompt"}
    /\ ruExit \in {"timeout", "eof", "error"}
    /\ ActedOnWait

\* what the driver takes for a matched credential prompt
DriverSawPrompt ==
    IF driver = "run_with_password" THEN found = marker_password
    ELSE PromptIn(output)

-----------------------------------------------------------------------------
C2_StallReturnsInTime ==
    (pc = "ru_read" /\ buf # <<>> /\ WouldBlock) =>
        now - start_time <= timeoutTicks + PollTicks(driver)

\* C3: as the claim states it: a driver that has sent the kill signal and
\* returned has reaped the child.
C3_KilledIsReaped == (pc = "done" /\ killSent) => reaped

\* C4: as the claim states it: a driver that injected the credential and
\* returned reports success exactly when the child's exit status is zero.
C4_SuccessIffExitZero ==
    (pc = "done" /\ CredentialWritten) => (ReportedSuccess <=> status = 0)

\* C5: as the claim states it: after a prompt wait that ended by timeout the
\* driver has killed the child, reports failure and has not written the
\* credential.
C5_TimeoutNeverInjects ==
    (ruExit = "timeout" /\ ActedOnWait) =>
        /\ killSent
        /\ ReportedFailure
        /\ ~CredentialWritten

-----------------------------------------------------------------------------
\* the accumulated bytes b hold a marker, as the variant of driver d compares
HoldsMarker(d, ms, b) ==
    CASE d = "run_with_password" ->
            \E k \in 1..Len(ms) : Contains(lower(ms[k]), lower(b))
      [] d = "run_ssh_command" -> Contains(ms[1], b) \/ PromptIn(b)
      [] OTHER -> Contains(ms[1], b)

\* the bytes os.read has returned since the current read_until call started
DeliveredInCall == SubSeq(consumed, ruBase + 1, Len(consumed))

\* C6: read_until tests the whole of what it has accumulated after every
\* read: while it is still reading, and when it returns without a match, the
\* bytes read so far hold no marker, and it returns with a match as soon as
\* they do, wherever the reads cut the stream.
C6_MatchOnAccumulated ==
    /\ pc = "ru_read" =>
          /\ buf = DeliveredInCall
          /\ ~HoldsMarker(driver, markers, buf)
    /\ (pc = ruRet /\ ruExit = "match") =>
          /\ buf = DeliveredInCall
          /\ HoldsMarker(driver, markers, buf)
    /\ (pc = ruRet /\ ruExit \in {"timeout", "eof", "error"}) =>
          ~HoldsMarker(driver, markers, buf)

\* C6 witness: a match on a buffer that is exactly "password:" and took
\* three reads to arrive
C6_Witness ==
    /\ driver = "run_with_password"
    /\ pc = ruRet
    /\ ruExit = "match"
    /\ buf = marker_password
    /\ now - start_time = 2 * PollTicks(driver)

\* C7: read_until of automate_pty.py returns the marker that comes first in
\* the marker list among those the buffer holds.
C7_DeclarationOrderWins ==
    (driver = "run_with_password" /\ ruExit = "match") =>
        \E k \in 1..Len(markers) :
            /\ found = markers[k]
            /\ Contains(lower(markers[k]), lower(buf))
            /\ \A j \in 1..(k - 1) : ~Contains(lower(markers[j]), lower(buf))

\* C7 witness: the buffer holds "yes/no" and then "password:", and the marker
\* returned is "password:"
C7_Witness ==
    /\ driver = "run_with_password"
    /\ pc = "rwp_first"
    /\ ruExit = "match"
    /\ buf = marker_yesno \o marker_password
    /\ found = marker_password

\* C8: when read_until ends at end of stream it returns no marker and the
\* bytes of all its reads, in order.
C8_EndOfStreamReturnsAll ==
    (pc = ruRet /\ ruExit \in {"eof", "error"}) =>
        /\ found = None
        /\ buf = DeliveredInCall

\* C8 witness: "yes/no" read in three pieces by run_ssh_command, then end of
\* stream
C8_Witness ==
    /\ driver = "run_ssh_command"
    /\ pc = ruRet
    /\ ruExit = "eof"
    /\ buf = marker_yesno
    /\ now - start_time = 3 * PollTicks(driver)

RECURSIVE Concat(_)
Concat(ss) == IF ss = <<>> THEN <<>> ELSE Head(ss) \o Concat(Tail(ss))

Ceil(a, b) == (a + b - 1) \div b

\* C9: once sync_file is past the upload, its writes are the credential line,
\* then ceil(len/chunk_size) pieces of at most chunk_size characters whose
\* concatenation is the encoded text, then a newline, then 0x04; and the
\* master fd is open all through the upload.
C9_ChunkedUpload ==
    /\ (driver = "sync_file" /\ pc \in {"relay", "waitpid", "done"}
            /\ written # <<>>) =>
          LET n == Ceil(Len(encoded), chunk_size)
          IN /\ Len(written) = n + 3
             /\ written[1] = password_line
             /\ \A k \in 2..(n + 1) :
                    Len(written[k]) >= 1 /\ Len(written[k]) <= chunk_size
             /\ Concat(SubSeq(written, 2, n + 1)) = encoded
             /\ written[n + 2] = newline
             /\ written[n + 3] = ctrl_d
    /\ (driver = "sync_file" /\ pc \in {"upload", "upload_eot", "relay"}) =>
          fdOpen

\* C9 witness: an encoded text one piece longer than a whole chunk, uploaded
C9_Witness ==
    /\ driver = "sync_file"
    /\ pc = "relay"
    /\ Len(encoded) = chunk_size + 4
    /\ Len(written) = 5

\* C10: in run_with_password, once "yes/no" was the marker first matched, the
\* first write is "yes\n" and it is written once; the credential is written
\* only after the second read_until matched "password:", as the write right
\* after "yes\n"; and if the child then exits 0 the driver reports no failure.
C10_YesThenCredential ==
    (driver = "run_with_password" /\ ruRet = "rwp_second") =>
        /\ written # <<>> /\ written[1] = yes_line
        /\ \A k \in 2..Len(written) : written[k] # yes_line
        /\ CredentialWritten =>
              /\ written = <<yes_line, password_line>>
              /\ ruExit = "match"
              /\ found = marker_password
        /\ (pc = "done" /\ CredentialWritten /\ status = 0) => ReportedSuccess

\* C10 witness: "yes\n" then the credential, and the child exited 0
C10_Witness ==
    /\ driver = "run_with_password"
    /\ pc = "done"
    /\ written = <<yes_line, password_line>>
    /\ status = 0

-----------------------------------------------------------------------------
\* byte string b ends with suf
EndsWith(b, suf) ==
    Len(b) >= Len(suf) /\ SubSeq(b, Len(b) - Len(suf) + 1, Len(b)) = suf

\* the child has put out all it has to say and waits for a line of input
\* that the driver has not written yet
ChildAwaitsInput ==
    /\ childState = "running"
    /\ pending = <<>>
    /\ later # <<>>
    /\ inputsSeen = Len(written)

\* the driver sits in an os.read
DriverInRead == pc \in {"ru_read", "relay"}

\* C11: as the claim states it: when the child has written output ending in
\* "Password: " and waits for input, a driver that has read all of it is not
\* left in a read without having written the credential; and a session in
\* which the credential was written and the child exited 0 reports success.
C11_PromptAnswered ==
    /\ (ChildAwaitsInput /\ avail = <<>> /\ DriverInRead
            /\ EndsWith(consumed, marker_Password \o s_sp)) =>
          CredentialWritten
    /\ (pc = "done" /\ CredentialWritten /\ status = 0) => ReportedSuccess

-----------------------------------------------------------------------------
\* C12: as the claim states it: a driver that has read output holding
\* "password:" in any mixture of upper and lower case has, by the time it
\* returns, written the credential.
C12_AnyCasePromptInjects ==
    (pc = "done" /\ Contains(marker_password, lower(consumed))) =>
        CredentialWritten

-----------------------------------------------------------------------------
\* the driver printed the line t
Said(t) == \E k \in 1..Len(printed) : printed[k].text = t

\* C13: as the claim states it: run_scp prints "Transfer successful" exactly
\* when the child exited normally with status 0 (wait status 0); after any
\* other end of the child it prints "Transfer failed" and all the bytes read.
C13_ScpReportsByStatus ==
    (driver = "run_scp" /\ pc = "done") =>
        /\ Said("Transfer successful") <=> status = 0
        /\ status # 0 =>
              Said("Transfer failed") /\ ReportCarries(Decode(consumed))

-----------------------------------------------------------------------------
IsPrefix(a, b) == Len(a) <= Len(b) /\ SubSeq(b, 1, Len(a)) = a

\* the encoded text cut every chunk_size characters
ExpectedPieces ==
    [k \in 1..Ceil(Len(encoded), chunk_size) |->
        SubSeq(encoded, (k - 1) * chunk_size + 1,
               Min(k * chunk_size, Len(encoded)))]

\* all the writes of a sync_file session that saw its prompt
ExpectedWrites ==
    <<password_line>> \o ExpectedPieces \o <<newline, ctrl_d>>

\* C14: in sync_file the writes come in the order credential line, pieces of
\* the payload in order, newline, 0x04; nothing is written unless the prompt
\* was found in the output of the wait; nothing is read between the end of
\* the wait and the 0x04 write, and the relay reads only after all writes.
C14_SyncWriteOrder ==
    driver = "sync_file" =>
        /\ written # <<>> => IsPrefix(written, ExpectedWrites)
        /\ written # <<>> => PromptIn(output)
        /\ pc \in {"upload", "upload_eot"} =>
              /\ written # <<>>
              /\ relayed = <<>>
              /\ consumed = output
        /\ (pc \in {"relay", "waitpid"} \/ relayed # <<>>) =>
              written = ExpectedWrites

\* C14 witness: all writes of a one-chunk payload done, the relay has read
\* its first bytes
C14_Witness ==
    /\ driver = "sync_file"
    /\ pc = "relay"
    /\ Len(encoded) = chunk_size
    /\ written = ExpectedWrites
    /\ relayed # <<>>

-----------------------------------------------------------------------------
\* C15: as the claim states it: a driver whose read_until ended at a
\* zero-length read or a read error does not go on to the upload or the
\* relay loop, and a driver that has returned after such a read has reaped
\* the child.
C15_EndOfStreamThenReap ==
    /\ (ruExit \in {"eof", "error"} /\ ActedOnWait) =>
          pc \notin {"upload", "upload_eot", "relay"}
    /\ (pc = "done" /\ lastRead \in {"eof", "error"}) => reaped

-----------------------------------------------------------------------------
\* the bytes of the relay phase have reached the caller: forwarded to stdout
\* as they came (run_with_password), or printed, as they are or with CRLF
\* turned into LF
RelaySurfaced ==
    \/ driver = "run_with_password"
    \/ ReportCarries(Decode(relayed))
    \/ ReportCarries(ReplaceCRLF(Decode(relayed)))

\* C16: as the claim states it: a session that ended without the credential
\* prompt reports failure with the bytes of the wait, and a session whose
\* child ended with a non-zero status reports failure with the bytes relayed.
C16_FailureCarriesBytes ==
    /\ (pc = "done" /\ driver \in PreScanDrivers /\ ~CredentialWritten) =>
          ReportedFailure /\ ReportCarries(Decode(output))
    /\ (pc = "done" /\ reaped /\ status # 0
            /\ (CredentialWritten \/ driver = "run_scp")) =>
          ReportedFailure /\ RelaySurfaced

-----------------------------------------------------------------------------
\* the phase of the session, by the driver's position: 0 SPAWNED, 1 the wait
\* that takes a host-confirmation prompt (run_with_password's first), 2 the
\* wait for the credential prompt alone, 3 STREAMING (upload and relay),
\* 4 ABORTED (killed by the driver, not reaped), 5 REAPED
Phase ==
    CASE pc = "start" -> 0
      [] pc \in {"ru_read", "rwp_first", "rwp_second", "ssh_prompt",
                 "sync_prompt"} ->
            IF driver = "run_with_password" /\ ruRet = "rwp_first"
            THEN 1 ELSE 2
      [] pc \in {"upload", "upload_eot", "relay"} -> 3
      [] pc = "waitpid" -> IF killSent THEN 4 ELSE 3
      [] OTHER -> IF reaped THEN 5 ELSE 4

Waiting == Phase \in {1, 2}

\* C17: every step moves the phase forward or leaves it; the driver kills
\* the child only from a wait for a prompt; and once the child was reaped or
\* killed by the driver, nothing more is read from or written to the channel.
C17_PhasesForward ==
    [][ /\ Phase' >= Phase
        /\ (killSent' /\ ~killSent) => Waiting
        /\ (reaped \/ killSent) =>
              UNCHANGED <<written, consumed, relayed, lastRead>> ]_vars

C17_Witness ==
    /\ driver = "run_with_password"
    /\ pc = "done"
    /\ written = <<yes_line, password_line>>
    /\ lastRead = "eof"
    /\ ~killSent
    /\ reaped

-----------------------------------------------------------------------------
Occurs(x, s) == \E k \in 1..Len(s) : s[k] = x

\* C18: as the claim states it: every child a driver has spawned was started
\* with the option that disables the host-key confirmation and with the
\* option that bounds the connection setup time.
C18_SpawnedWithOptions ==
    childState # "unborn" =>
        /\ Occurs("StrictHostKeyChecking=no", ExecArgv(driver, cmd_args))
        /\ Occurs("ConnectTimeout=5", ExecArgv(driver, cmd_args))

-----------------------------------------------------------------------------
\* C19: as the claim states it: in run_scp, once the credential marker is in
\* the output accumulated so far, however it was split into reads, the
\* credential has been written.
C19_ScpStraddlingPrompt ==
    (driver = "run_scp" /\ PromptIn(relayed)) => CredentialWritten

-----------------------------------------------------------------------------
RelayDrivers == {"run_with_password", "run_ssh_command"}

\* the bytes of b after the first credential prompt in it, in either case
AfterPrompt(b) ==
    LET ends == {k \in 0..Len(b) :
                    Contains(marker_password, lower(SubSeq(b, 1, k)))}
    IN IF ends = {} THEN <<>>
       ELSE LET e == CHOOSE k \in ends : \A j \in ends : k <= j
            IN SubSeq(b, e + 1, Len(b))

\* the bytes read from the channel after the last read_until returned
ReadAfterWait == SubSeq(consumed, ruBase + Len(buf) + 1, Len(consumed))

\* C20, as first stated: when a session of run_with_password or
\* run_ssh_command that sent the credential has ended, the relay holds every
\* byte the child wrote after the credential prompt, those that came in the
\* same read as the prompt's marker included.
C20_RelayFromPromptOn ==
    (driver \in RelayDrivers /\ pc = "done" /\ CredentialWritten) =>
        relayed = AfterPrompt(consumed)

\* C20, amended: once the credential is sent, the relay holds, in order and
\* with no loss or duplication, the bytes read after the wait for the prompt
\* returned; and the relay loop ends at end of stream only, with nothing left
\* unread.
C20_RelayAfterWait ==
    (driver \in RelayDrivers /\ CredentialWritten) =>
        /\ relayed = ReadAfterWait
        /\ pc \in {"waitpid", "done"} =>
              avail = <<>> /\ childState # "running"
                           /\ lastRead \in {"eof", "error"}

C20_Witness ==
    /\ driver = "run_ssh_command"
    /\ pc = "done"
    /\ buf = marker_Password \o s_sp
    /\ relayed = s_ok
    /\ consumed = buf \o relayed

-----------------------------------------------------------------------------
\* the bytes read from the child hold the credential prompt in one of the two
\* spellings the drivers look for
PromptWasRead ==
    Contains(marker_password, consumed) \/ Contains(marker_Password, consumed)

\* the same, in any letter case (run_with_password matches on buf.lower())
PromptWasReadAnyCase == Contains(marker_password, lower(consumed))

\* C21: in every reachable state, the credential has been written only if a
\* credential prompt is among the bytes already read from the child: in one
\* of the spellings "password:" / "Password:" for run_ssh_command, sync_file
\* and run_scp, in any letter case for run_with_password.
C21_CredentialOnlyAfterPrompt ==
    CredentialWritten =>
        /\ PromptWasReadAnyCase
        /\ driver # "run_with_password" => PromptWasRead

C21_Witness ==
    /\ driver = "run_scp"
    /\ pc = "relay"
    /\ CredentialWritten
    /\ PromptWasRead
    /\ childState = "running"

-----------------------------------------------------------------------------
\* how many times the credential line was written to the channel
CredentialWrites == Cardinality({k \in 1..Len(written) : written[k] = password_line})

\* C22: as the claim states it: the credential line is written at most once
\* in a session, however often the prompt shows in the child's output.
C22_CredentialOneShot == CredentialWrites <= 1

====
